---- MODULE Spec2Model ----
(***************************************************************************)
(* HarmonyLab (src/src/HarmonyLab.tsx, the component of lines 194-604):    *)
(* the mixer (mute / solo / level), the signal graph with its source       *)
(* manager, and the recorder.                                              *)
(*                                                                         *)
(* Gains and levels are integers in hundredths (0.7 is 70, 1.5 is 150).    *)
(* The operations are the component's handlers.  A synchronous handler is  *)
(* one action; an async handler is cut at its awaits, one action per       *)
(* continuation, and the calls in flight are part of the state.            *)
(***************************************************************************)
EXTENDS Integers, FiniteSets, Sequences, TLC

VARIABLES
  \* mixer
  harmonies,      \* useState<Harmony[]>: id -> [enabled, solo, prevLevel, gain]
  mainMuted,      \* useState(false)
  dryGain,        \* dryGain.gain.value
  dryDefaultRef,  \* dryDefaultRef.current
  dryPrev,        \* useState(dryDefault)
  \* signal graph and source manager
  edges,          \* the connections of the audio graph, <<from, to>>
  status,         \* useState("idle")
  micRef,         \* micRef.current
  playerRef,      \* playerRef.current
  selectedMicId,  \* useState("")
  player,         \* the loaded Tone.Player: started, onstop registered
  srcCalls,       \* startMic / loadFile / playFile calls in flight
  \* recorder and monitor
  busGain,        \* bus.gain.value
  monitorGain,    \* monitorGain.gain.value
  muteDuringRec,  \* useState(true)
  isRec,          \* useState(false)
  isStartingRec,  \* useState(false)
  view,           \* the state values of the last commit: what the handlers' closures see
  inEvent,        \* startRecord has been called and React has not committed yet
  recorderRef,    \* recorderRef.current: 0 is null, else the number of the Tone.Recorder
  recorders,      \* the Tone.Recorder objects created so far: their state
  recStatusRef,   \* recStatusRef.current
  downloadUrl,    \* useState(null): 0 is null
  lastBlobUrlRef, \* lastBlobUrlRef.current: 0 is null
  urls,           \* object URLs created and not revoked
  toast,          \* the advisory on screen
  tickRef,        \* tickRef.current: 0 is null
  intervals,      \* the setInterval timers that are running
  recStartRef,    \* recStartRef.current is set
  recCalls,       \* startRecord / stopRecord calls in flight
  recLog,         \* counts of what the recorder has done so far
  \* input level
  meterDb,        \* the reading meter.getValue() gave to the last sample
  inputLevel,     \* useState(0), in sixtieths
  \* bookkeeping
  last,           \* the operation that produced the current state
  nOps            \* number of mixer operations issued so far

mixVars == <<harmonies, mainMuted, dryGain, dryDefaultRef, dryPrev>>
graphVars == <<status, micRef, playerRef, selectedMicId, player, srcCalls>>
srcVars == <<edges, graphVars>>
monVars == <<busGain, monitorGain, muteDuringRec>>
recVars == <<isRec, isStartingRec, view, inEvent, recorderRef, recorders,
             recStatusRef, downloadUrl, lastBlobUrlRef, urls, toast, tickRef,
             intervals, recStartRef, recCalls, recLog>>
lvlVars == <<meterDb, inputLevel>>
vars == <<mixVars, srcVars, monVars, recVars, lvlVars, last, nOps>>

----------------------------------------------------------------------------
(* Bounds *)

\* number of non-zero stops a fader can be dragged to
MaxFaderStops == 2

\* number of mixer operations in one run
MaxMixOps == 4

\* number of source-manager calls (startMic, loadFile, playFile) in flight
MaxSrcCalls == 2

\* number of microphone nodes, and of player nodes, alive at once
MaxSrcNodes == 2

\* number of source-manager handlers called in a run
MaxSrcOps == 5

\* number of startRecord / stopRecord calls in flight
MaxRecCalls == 2

\* number of startRecord calls, and of stopRecord calls, that get past their guards
MaxRecStarts == 3
MaxRecStops == 2

\* number of interval timers, and of object URLs, that can exist at once
MaxHandles == 2

\* how far, in dB, the meter readings go below -60 dB and above 0 dB
MaxDbOver == 25

----------------------------------------------------------------------------
(* Types and presets *)

\* HARMONY_PRESETS ids
Voices == {"+3", "+5", "-3", "-5"}

\* new Tone.Gain(0.7), prevLevel: 0.7
VoiceDefault == 70

\* const dryDefault = 0.9
dryDefault == 90

\* <Fader min=0 max=1.5 step=0.01>: the positions the model drags a fader to
FaderPositions == {50 * i : i \in 0..MaxFaderStops}

NoOp == [op |-> "init", id |-> "", on |-> FALSE, level |-> 0]

Op(name) == [NoOp EXCEPT !.op = name]

----------------------------------------------------------------------------
(* Mixer: initial state *)

InitHarmonies ==
  [v \in Voices |->
     [enabled   |-> (v = "+3" \/ v = "+5"),
      solo      |-> FALSE,
      prevLevel |-> VoiceDefault,
      gain      |-> VoiceDefault]]

\* useEffect [mainMuted, dryGain]: dryGain.gain.value = mainMuted ? 0 : dryDefaultRef.current
MainMutedEffectValue(mm, ref) == IF mm THEN 0 ELSE ref

\* the effect runs in a commit only when mainMuted changed
MainMutedEffect(oldMm, newMm, dg, ref) ==
  IF oldMm # newMm THEN MainMutedEffectValue(newMm, ref) ELSE dg

InitMix ==
  /\ harmonies = InitHarmonies
  /\ mainMuted = FALSE
  /\ dryDefaultRef = dryDefault
  /\ dryGain = MainMutedEffectValue(FALSE, dryDefault)
  /\ dryPrev = dryDefault

----------------------------------------------------------------------------
(* Mixer: the state updaters, as functions on the harmonies array *)

toggleHarmonyEnabledH(h, id, on) ==
  [w \in Voices |->
     IF w = id
       THEN IF on
              THEN [h[w] EXCEPT !.gain = h[w].prevLevel, !.enabled = TRUE]
              ELSE [h[w] EXCEPT !.prevLevel = h[w].gain, !.gain = 0, !.enabled = FALSE]
       ELSE h[w]]

soloNoneH(h) ==
  [w \in Voices |-> [h[w] EXCEPT !.solo = FALSE, !.gain = h[w].prevLevel]]

soloDryH(h) ==
  [w \in Voices |-> [h[w] EXCEPT !.solo = FALSE, !.gain = 0]]

\* toggleSolo leaving the solo flags of the other voices alone
toggleSoloHOthersKept(h, id) ==
  LET turningOff == h[id].solo
  IN [w \in Voices |->
        IF turningOff THEN [h[w] EXCEPT !.solo = FALSE, !.gain = h[w].prevLevel]
        ELSE IF w = id THEN [h[w] EXCEPT !.solo = TRUE, !.gain = h[w].prevLevel]
        ELSE [h[w] EXCEPT !.gain = 0]]

toggleSoloH(h, id) ==
  LET turningOff == h[id].solo
  IN [w \in Voices |->
        IF turningOff THEN [h[w] EXCEPT !.solo = FALSE, !.gain = h[w].prevLevel]
        ELSE IF w = id THEN [h[w] EXCEPT !.solo = TRUE, !.gain = h[w].prevLevel]
        ELSE [h[w] EXCEPT !.solo = FALSE, !.gain = 0]]

\* setHarmonyLevel storing the level without applying it
setHarmonyLevelHStored(h, id, level) ==
  [w \in Voices |->
     IF w = id THEN [h[w] EXCEPT !.prevLevel = level] ELSE h[w]]

setHarmonyLevelH(h, id, level) ==
  [w \in Voices |->
     IF w = id THEN [h[w] EXCEPT !.prevLevel = level, !.gain = level] ELSE h[w]]

----------------------------------------------------------------------------
(* Mixer: the handlers *)

\* one more mixer operation; the other parts of the component are not touched
MixStep ==
  /\ nOps < MaxMixOps
  /\ nOps' = nOps + 1
  /\ UNCHANGED <<srcVars, monVars, recVars, lvlVars>>

toggleHarmonyEnabled(id, on) ==
  /\ MixStep
  /\ harmonies' = toggleHarmonyEnabledH(harmonies, id, on)
  /\ last' = [Op("toggleHarmonyEnabled") EXCEPT !.id = id, !.on = on]
  /\ UNCHANGED <<mainMuted, dryGain, dryDefaultRef, dryPrev>>

setMainLevel(v) ==
  /\ MixStep
  /\ dryPrev' = v
  /\ dryGain' = v
  /\ dryDefaultRef' = v
  /\ last' = [Op("setMainLevel") EXCEPT !.level = v]
  /\ UNCHANGED <<harmonies, mainMuted>>

\* Main channel fader onChange: dryGain.gain.value = v; dryDefaultRef.current = v
MainFader(v) ==
  /\ MixStep
  /\ dryGain' = v
  /\ dryDefaultRef' = v
  /\ last' = [Op("MainFader") EXCEPT !.level = v]
  /\ UNCHANGED <<harmonies, mainMuted, dryPrev>>

\* the updater mutes or unmutes by hand, then the mainMuted effect runs
toggleMainMute ==
  /\ MixStep
  /\ mainMuted' = ~mainMuted
  /\ dryPrev' = IF ~mainMuted THEN dryGain ELSE dryPrev
  /\ dryGain' = MainMutedEffect(mainMuted, ~mainMuted,
                                IF ~mainMuted THEN 0 ELSE dryPrev, dryDefaultRef)
  /\ last' = Op("toggleMainMute")
  /\ UNCHANGED <<harmonies, dryDefaultRef>>

soloNone ==
  /\ MixStep
  /\ harmonies' = soloNoneH(harmonies)
  /\ mainMuted' = FALSE
  /\ dryGain' = MainMutedEffect(mainMuted, FALSE, dryGain, dryDefaultRef)
  /\ last' = Op("soloNone")
  /\ UNCHANGED <<dryDefaultRef, dryPrev>>

soloDry ==
  /\ MixStep
  /\ harmonies' = soloDryH(harmonies)
  /\ mainMuted' = FALSE
  /\ dryGain' = MainMutedEffect(mainMuted, FALSE, dryGain, dryDefaultRef)
  /\ last' = Op("soloDry")
  /\ UNCHANGED <<dryDefaultRef, dryPrev>>

\* setMainMuted(!turningOff)
toggleSoloMuted(h, id) == ~h[id].solo

toggleSolo(id) ==
  /\ MixStep
  /\ harmonies' = toggleSoloH(harmonies, id)
  /\ mainMuted' = toggleSoloMuted(harmonies, id)
  /\ dryGain' = MainMutedEffect(mainMuted, toggleSoloMuted(harmonies, id),
                                dryGain, dryDefaultRef)
  /\ last' = [Op("toggleSolo") EXCEPT !.id = id]
  /\ UNCHANGED <<dryDefaultRef, dryPrev>>

setHarmonyLevel(id, level) ==
  /\ MixStep
  /\ harmonies' = setHarmonyLevelH(harmonies, id, level)
  /\ last' = [Op("setHarmonyLevel") EXCEPT !.id = id, !.level = level]
  /\ UNCHANGED <<mainMuted, dryGain, dryDefaultRef, dryPrev>>

NextMix ==
  \/ \E id \in Voices, on \in BOOLEAN : toggleHarmonyEnabled(id, on)
  \/ \E v \in FaderPositions : setMainLevel(v)
  \/ \E v \in FaderPositions : MainFader(v)
  \/ toggleMainMute
  \/ soloNone
  \/ soloDry
  \/ \E id \in Voices : toggleSolo(id)
  \/ \E id \in Voices, level \in FaderPositions : setHarmonyLevel(id, level)

----------------------------------------------------------------------------
(* Signal graph *)

DryGainNode == <<"dryGain", "", 0>>
BusNode     == <<"bus", "", 0>>
MonitorNode == <<"monitorGain", "", 0>>
Destination == <<"destination", "", 0>>
AnalyserNode == <<"analyser", "", 0>>
MeterNode   == <<"meter", "", 0>>
Shifter(v)  == <<"shifter", v, 0>>
Gain(v)     == <<"gain", v, 0>>
MicNode(i)  == <<"mic", "", i>>
PlayerNode(i) == <<"player", "", i>>
NoNode      == <<"null", "", 0>>

\* "Wire graph once" effect
WiredGraph ==
  {<<DryGainNode, BusNode>>}
    \cup {<<Gain(v), BusNode>> : v \in Voices}
    \cup {<<BusNode, MonitorNode>>, <<MonitorNode, Destination>>,
          <<BusNode, AnalyserNode>>, <<BusNode, MeterNode>>}

\* node.disconnect(): every connection leaving the node
Disconnect(es, node) == {e \in es : e[1] # node}

\* Tone's connect() returns the node it was called on, so
\* node.connect(h.shifter).connect(h.gain) connects node to both
attachNode(es, node) ==
  es \cup {<<node, DryGainNode>>}
     \cup {<<node, Shifter(v)>> : v \in Voices}
     \cup {<<node, Gain(v)>> : v \in Voices}

detachNode(es, node) ==
  {e \in es : /\ e[1] # node
              /\ \A v \in Voices : e[1] # Shifter(v) /\ e[1] # Gain(v)}

----------------------------------------------------------------------------
(* Source manager *)

\* the ids offered by the microphone select; "" is the system default
DeviceIds == {"", "usb", "bt"}

\* a call in flight: where it is, the node it creates, the device id it
\* read; and, for the properties, the status and whether a player was
\* loaded when it was made, what made it and whether stopMic ran since
NoCall == [kind |-> "none", pc |-> "", node |-> NoNode, dev |-> "",
           was |-> "", hadPlayer |-> FALSE, origin |-> "",
           superseded |-> FALSE]
SrcSlots == 1..MaxSrcCalls
FreeSrcSlots(calls) == {c \in SrcSlots : calls[c].kind = "none"}

Min(S) == CHOOSE x \in S : \A y \in S : x <= y

\* node names never used by a live object are handed out again
InUse(node, es, ref, calls) ==
  \/ node = ref
  \/ \E c \in SrcSlots : calls[c].node = node
  \/ \E e \in es : e[1] = node
FreeMics(es, ref, calls) ==
  {i \in 1..MaxSrcNodes : ~InUse(MicNode(i), es, ref, calls)}
FreePlayers(es, ref, calls) ==
  {i \in 1..MaxSrcNodes : ~InUse(PlayerNode(i), es, ref, calls)}

InitSrc ==
  /\ edges = WiredGraph
  /\ status = "idle"
  /\ micRef = NoNode
  /\ playerRef = NoNode
  /\ selectedMicId = ""
  /\ player = [started |-> FALSE, onstop |-> FALSE]
  /\ srcCalls = [c \in SrcSlots |-> NoCall]

\* a source-manager step leaves the mixer alone
SrcStep == UNCHANGED <<mixVars, monVars, recVars, lvlVars, nOps>>

\* a call of a source-manager handler, as opposed to the continuation of one
SrcCall ==
  /\ nOps < MaxSrcOps
  /\ nOps' = nOps + 1
  /\ UNCHANGED <<mixVars, monVars, recVars, lvlVars>>

\* startMic up to its first await: await initAudio() -> await Tone.start()
startMic ==
  /\ FreeSrcSlots(srcCalls) # {}
  /\ FreeMics(edges, micRef, srcCalls) # {}
  /\ srcCalls' = [srcCalls EXCEPT ![Min(FreeSrcSlots(srcCalls))] =
                    [kind |-> "startMic", pc |-> "start",
                     node |-> MicNode(Min(FreeMics(edges, micRef, srcCalls))),
                     dev |-> selectedMicId, was |-> status,
                     hadPlayer |-> playerRef # NoNode,
                     origin |-> "click", superseded |-> FALSE]]
  /\ last' = Op("startMic")
  /\ UNCHANGED <<edges, status, micRef, playerRef, selectedMicId, player>>
  /\ SrcCall

\* Tone.start() resolved: initAudio sets "ready", the microphone is created
\* and mic.open(constraints) is awaited
startMicInit(c) ==
  /\ srcCalls[c].kind = "startMic" /\ srcCalls[c].pc = "start"
  /\ status' = "ready"
  /\ srcCalls' = [srcCalls EXCEPT ![c].pc = "open"]
  /\ last' = Op("startMicInit")
  /\ UNCHANGED <<edges, micRef, playerRef, selectedMicId, player>>
  /\ SrcStep

\* mic.open resolved: micRef.current = mic; attachNode(mic); setStatus("live")
startMicOpened(c) ==
  /\ srcCalls[c].kind = "startMic" /\ srcCalls[c].pc = "open"
  /\ micRef' = srcCalls[c].node
  /\ edges' = attachNode(edges, srcCalls[c].node)
  /\ status' = "live"
  /\ srcCalls' = [srcCalls EXCEPT ![c] = NoCall]
  /\ last' = Op("startMicOpened")
  /\ UNCHANGED <<playerRef, selectedMicId, player>>
  /\ SrcStep

\* mic.open rejected (permission denied, device busy): startMic rejects
startMicFailed(c) ==
  /\ srcCalls[c].kind = "startMic" /\ srcCalls[c].pc = "open"
  /\ srcCalls' = [srcCalls EXCEPT ![c] = NoCall]
  /\ last' = Op("startMicFailed")
  /\ UNCHANGED <<edges, status, micRef, playerRef, selectedMicId, player>>
  /\ SrcStep

\* stopMic without the detach
stopMicEdgesKept(es, ref) == es

stopMicEdges(es, ref) == IF ref # NoNode THEN detachNode(es, ref) ELSE es

\* the startMic calls in flight have seen a stopMic
Superseded(calls) ==
  [c \in SrcSlots |-> IF calls[c].kind = "startMic"
                        THEN [calls[c] EXCEPT !.superseded = TRUE]
                        ELSE calls[c]]

stopMic ==
  /\ edges' = stopMicEdges(edges, micRef)
  /\ micRef' = NoNode
  /\ status' = "idle"
  /\ srcCalls' = Superseded(srcCalls)
  /\ last' = Op("stopMic")
  /\ UNCHANGED <<playerRef, selectedMicId, player>>
  /\ SrcCall

\* loadFile up to its await: await initAudio()
loadFile ==
  /\ FreeSrcSlots(srcCalls) # {}
  /\ FreePlayers(edges, playerRef, srcCalls) # {}
  /\ srcCalls' = [srcCalls EXCEPT ![Min(FreeSrcSlots(srcCalls))] =
                    [NoCall EXCEPT !.kind = "loadFile", !.pc = "start",
                       !.node = PlayerNode(Min(FreePlayers(edges, playerRef, srcCalls)))]]
  /\ last' = Op("loadFile")
  /\ UNCHANGED <<edges, status, micRef, playerRef, selectedMicId, player>>
  /\ SrcCall

\* the rest of loadFile: the old player is detached and disposed, the new
\* one is stored and attached
loadFileInit(c) ==
  /\ srcCalls[c].kind = "loadFile" /\ srcCalls[c].pc = "start"
  /\ edges' = attachNode(IF playerRef # NoNode THEN detachNode(edges, playerRef)
                                               ELSE edges,
                         srcCalls[c].node)
  /\ playerRef' = srcCalls[c].node
  /\ player' = [started |-> FALSE, onstop |-> FALSE]
  /\ status' = "ready"
  /\ srcCalls' = [srcCalls EXCEPT ![c] = NoCall]
  /\ last' = Op("loadFileInit")
  /\ UNCHANGED <<micRef, selectedMicId>>
  /\ SrcStep

\* playFile up to its await: if (!playerRef.current) return; await Tone.start()
playFile ==
  /\ IF playerRef = NoNode
       THEN UNCHANGED srcCalls
       ELSE /\ FreeSrcSlots(srcCalls) # {}
            /\ srcCalls' = [srcCalls EXCEPT ![Min(FreeSrcSlots(srcCalls))] =
                              [NoCall EXCEPT !.kind = "playFile", !.pc = "start"]]
  /\ last' = Op("playFile")
  /\ UNCHANGED <<edges, status, micRef, playerRef, selectedMicId, player>>
  /\ SrcCall

\* playerRef.current.start(); setStatus("playing"); onstop = () => setStatus("ready")
playFileStarted(c) ==
  /\ srcCalls[c].kind = "playFile" /\ srcCalls[c].pc = "start"
  /\ player' = [started |-> TRUE, onstop |-> TRUE]
  /\ status' = "playing"
  /\ srcCalls' = [srcCalls EXCEPT ![c] = NoCall]
  /\ last' = Op("playFileStarted")
  /\ UNCHANGED <<edges, micRef, playerRef, selectedMicId>>
  /\ SrcStep

\* playerRef.current?.stop(); setStatus("ready")
stopFile ==
  /\ player' = [player EXCEPT !.started = FALSE]
  /\ status' = "ready"
  /\ last' = Op("stopFile")
  /\ UNCHANGED <<edges, micRef, playerRef, selectedMicId, srcCalls>>
  /\ SrcCall

\* the file plays to its end: the onstop callback, when registered, runs
playbackEnded ==
  /\ player.started
  /\ player' = [player EXCEPT !.started = FALSE]
  /\ status' = IF player.onstop THEN "ready" ELSE status
  /\ last' = Op("playbackEnded")
  /\ UNCHANGED <<edges, micRef, playerRef, selectedMicId, srcCalls>>
  /\ SrcStep

\* the select's onChange and the [selectedMicId] effect:
\* if (status === "live" && micRef.current) { stopMic(); startMic(); }
selectMic(d) ==
  /\ d # selectedMicId
  /\ selectedMicId' = d
  /\ IF status = "live" /\ micRef # NoNode
       THEN LET es == stopMicEdges(edges, micRef)
            IN /\ FreeSrcSlots(srcCalls) # {}
               /\ edges' = es
               /\ micRef' = NoNode
               /\ status' = "idle"
               /\ srcCalls' = [Superseded(srcCalls) EXCEPT ![Min(FreeSrcSlots(srcCalls))] =
                                 [kind |-> "startMic", pc |-> "start",
                                  node |-> MicNode(Min(FreeMics(es, NoNode, srcCalls))),
                                  dev |-> d, was |-> "idle",
                                  hadPlayer |-> playerRef # NoNode,
                                  origin |-> "switch", superseded |-> FALSE]]
       ELSE UNCHANGED <<edges, micRef, status, srcCalls>>
  /\ last' = Op("selectMic")
  /\ UNCHANGED <<playerRef, player>>
  /\ SrcCall

NextSrc ==
  \/ startMic
  \/ \E c \in SrcSlots : startMicInit(c)
  \/ \E c \in SrcSlots : startMicOpened(c)
  \/ \E c \in SrcSlots : startMicFailed(c)
  \/ stopMic
  \/ loadFile
  \/ \E c \in SrcSlots : loadFileInit(c)
  \/ playFile
  \/ \E c \in SrcSlots : playFileStarted(c)
  \/ stopFile
  \/ playbackEnded
  \/ \E d \in DeviceIds : selectMic(d)

----------------------------------------------------------------------------
(* Recorder and monitor *)

\* new Tone.Gain(1): the bus and the monitor gain, in hundredths
Unity == 100

\* the top of the Master fader (max={1.2})
MasterMax == 120

RecorderNode(i) == <<"recorder", "", i>>

\* what a render closes over
Snapshot(ir, isr, m) == [isRec |-> ir, isStartingRec |-> isr, muteDuringRec |-> m]

\* useEffect [isRec, muteDuringRec, monitorGain]:
\* monitorGain.gain.value = (isRec && muteDuringRec) ? 0 : 1
MonitorEffect(old, new, mg) ==
  IF old.isRec # new.isRec \/ old.muteDuringRec # new.muteDuringRec
    THEN (IF new.isRec /\ new.muteDuringRec THEN 0 ELSE Unity)
    ELSE mg

NoRecCall == [kind |-> "none", pc |-> ""]
RecSlots == 1..MaxRecCalls
FreeRecSlots(calls) == {c \in RecSlots : calls[c].kind = "none"}

InitRec ==
  /\ busGain = Unity
  /\ monitorGain = Unity
  /\ muteDuringRec = TRUE
  /\ isRec = FALSE
  /\ isStartingRec = FALSE
  /\ view = Snapshot(FALSE, FALSE, TRUE)
  /\ inEvent = FALSE
  /\ recorderRef = 0
  /\ recorders = << >>
  /\ recStatusRef = "idle"
  /\ downloadUrl = 0
  /\ lastBlobUrlRef = 0
  /\ urls = {}
  /\ toast = ""
  /\ tickRef = 0
  /\ intervals = {}
  /\ recStartRef = FALSE
  /\ recCalls = [c \in RecSlots |-> NoRecCall]
  /\ recLog = [starts |-> 0, stops |-> 0, captures |-> 0, blobs |-> 0,
               failed |-> 0, doubled |-> FALSE]

\* a recorder step leaves the mixer and the source manager alone
RecStep == UNCHANGED <<mixVars, graphVars, busGain, lvlVars, nOps>>

\* React commits: the handlers are re-created over the current state and the
\* effects whose dependencies changed run
Render ==
  /\ inEvent \/ view # Snapshot(isRec, isStartingRec, muteDuringRec)
  /\ view' = Snapshot(isRec, isStartingRec, muteDuringRec)
  /\ monitorGain' = MonitorEffect(view, view', monitorGain)
  /\ inEvent' = FALSE
  /\ last' = Op("Render")
  /\ UNCHANGED <<isRec, isStartingRec, recorderRef, recorders, recStatusRef,
                 downloadUrl, lastBlobUrlRef, urls, toast, tickRef, intervals,
                 recStartRef, recCalls, recLog, muteDuringRec, edges>>
  /\ RecStep

\* the Toggle "Mute under optag", and the commit of the click
setMuteDuringRec(b) ==
  /\ ~inEvent
  /\ muteDuringRec' = b
  /\ view' = Snapshot(isRec, isStartingRec, b)
  /\ monitorGain' = MonitorEffect(view, view', monitorGain)
  /\ last' = [Op("setMuteDuringRec") EXCEPT !.on = b]
  /\ UNCHANGED <<isRec, isStartingRec, inEvent, recorderRef, recorders,
                 recStatusRef, downloadUrl, lastBlobUrlRef, urls, toast, tickRef,
                 intervals, recStartRef, recCalls, recLog, edges>>
  /\ RecStep

\* Master fader onChange: monitorGain.gain.value = v  (max 1.2)
MasterFader(v) ==
  /\ ~inEvent
  /\ v <= MasterMax
  /\ monitorGain' = v
  /\ last' = [Op("MasterFader") EXCEPT !.level = v]
  /\ UNCHANGED <<muteDuringRec, recVars, edges>>
  /\ RecStep

\* showToast's timeout clears the advisory
toastTimeout ==
  /\ ~inEvent
  /\ toast # ""
  /\ toast' = ""
  /\ last' = Op("toastTimeout")
  /\ UNCHANGED <<isRec, isStartingRec, view, inEvent, recorderRef, recorders,
                 recStatusRef, downloadUrl, lastBlobUrlRef, urls, tickRef,
                 intervals, recStartRef, recCalls, recLog, monitorGain,
                 muteDuringRec, edges>>
  /\ RecStep

hasInput(mic, pl) == mic # NoNode \/ pl # NoNode

\* if (isRec || isStartingRec || recStatusRef.current === "recording") return;
startBlocked(v, st) == v.isRec \/ v.isStartingRec \/ st = "recording"

\* ensureRecorder without bus.connect(r)
ensureRecorderUnconnected(ref, recs, es) ==
  IF ref = 0
    THEN [ref  |-> Len(recs) + 1,
          recs |-> Append(recs, "stopped"),
          es   |-> es]
    ELSE [ref |-> ref, recs |-> recs, es |-> es]

\* ensureRecorder: the recorder is created once and the bus connected to it
ensureRecorder(ref, recs, es) ==
  IF ref = 0
    THEN [ref  |-> Len(recs) + 1,
          recs |-> Append(recs, "stopped"),
          es   |-> es \cup {<<BusNode, RecorderNode(Len(recs) + 1)>>}]
    ELSE [ref |-> ref, recs |-> recs, es |-> es]

\* a call that follows, in the same event, a call that got past both tests
secondInEvent == inEvent /\ last.op = "startRecord" /\ last.id = "started"

\* startRecord without the test for a source
startRecordUnchecked ==
  /\ IF startBlocked(view, recStatusRef)
       THEN /\ last' = [Op("startRecord") EXCEPT !.id = "blocked"]
            /\ UNCHANGED <<isStartingRec, downloadUrl, recorderRef, recorders,
                           edges, recCalls, recLog, toast>>
       ELSE LET r == ensureRecorder(recorderRef, recorders, edges)
            IN /\ FreeRecSlots(recCalls) # {}
               /\ recLog.starts < MaxRecStarts
               /\ isStartingRec' = TRUE
               /\ downloadUrl' = 0
               /\ recorderRef' = r.ref
               /\ recorders' = r.recs
               /\ edges' = r.es
               /\ recCalls' = [recCalls EXCEPT ![Min(FreeRecSlots(recCalls))] =
                                 [kind |-> "start", pc |-> "toneStart"]]
               /\ recLog' = [recLog EXCEPT !.starts = @ + 1,
                                           !.doubled = @ \/ secondInEvent]
               /\ last' = [Op("startRecord") EXCEPT !.id = "started"]
               /\ UNCHANGED toast
  /\ inEvent' = TRUE
  /\ UNCHANGED <<isRec, view, recStatusRef, lastBlobUrlRef, urls, tickRef,
                 intervals, recStartRef, monitorGain, muteDuringRec>>
  /\ RecStep

\* startRecord up to its first await (await Tone.start()).  The call reads
\* isRec and isStartingRec from the closure it was called on; a second call
\* in the same event sees the same closure.
startRecord ==
  /\ IF startBlocked(view, recStatusRef)
       THEN /\ last' = [Op("startRecord") EXCEPT !.id = "blocked"]
            /\ UNCHANGED <<isStartingRec, downloadUrl, recorderRef, recorders,
                           edges, recCalls, recLog, toast>>
       ELSE IF ~hasInput(micRef, playerRef)
         THEN /\ toast' = "noSource"
              /\ last' = [Op("startRecord") EXCEPT !.id = "noSource"]
              /\ UNCHANGED <<isStartingRec, downloadUrl, recorderRef, recorders,
                             edges, recCalls, recLog>>
         ELSE LET r == ensureRecorder(recorderRef, recorders, edges)
              IN /\ FreeRecSlots(recCalls) # {}
                 /\ recLog.starts < MaxRecStarts
                 /\ isStartingRec' = TRUE
                 /\ downloadUrl' = 0
                 /\ recorderRef' = r.ref
                 /\ recorders' = r.recs
                 /\ edges' = r.es
                 /\ recCalls' = [recCalls EXCEPT ![Min(FreeRecSlots(recCalls))] =
                                   [kind |-> "start", pc |-> "toneStart"]]
                 /\ recLog' = [recLog EXCEPT !.starts = @ + 1,
                                             !.doubled = @ \/ secondInEvent]
                 /\ last' = [Op("startRecord") EXCEPT !.id = "started"]
                 /\ UNCHANGED toast
  /\ inEvent' = TRUE
  /\ UNCHANGED <<isRec, view, recStatusRef, lastBlobUrlRef, urls, tickRef,
                 intervals, recStartRef, monitorGain, muteDuringRec>>
  /\ RecStep

FreeHandles(used) == {i \in 1..MaxHandles : i \notin used}

\* startRecord's continuation if the sink accepted a second start
startRecordToneStartedAgain(c) ==
  /\ ~inEvent
  /\ recCalls[c].kind = "start" /\ recCalls[c].pc = "toneStart"
  /\ recorders' = [recorders EXCEPT ![recorderRef] = "started"]
  /\ recLog' = [recLog EXCEPT !.captures = @ + 1]
  /\ recCalls' = [recCalls EXCEPT ![c].pc = "recStart"]
  /\ last' = [Op("startRecordToneStarted") EXCEPT !.id = "capturing"]
  /\ UNCHANGED <<isStartingRec, isRec, view, inEvent, recorderRef,
                 recStatusRef, downloadUrl, lastBlobUrlRef, urls, toast,
                 tickRef, intervals, recStartRef, monitorGain, muteDuringRec,
                 edges>>
  /\ RecStep

\* Tone.start() resolved: recorderRef.current?.start().  A recorder that is
\* already started rejects ("Recorder is already started"); the catch drops
\* that message and finally clears isStartingRec.  Otherwise the sink starts
\* capturing and the call awaits its start event.
startRecordToneStarted(c) ==
  /\ ~inEvent
  /\ recCalls[c].kind = "start" /\ recCalls[c].pc = "toneStart"
  /\ IF recorderRef # 0 /\ recorders[recorderRef] = "started"
       THEN /\ isStartingRec' = FALSE
            /\ recCalls' = [recCalls EXCEPT ![c] = NoRecCall]
            /\ last' = [Op("startRecordToneStarted") EXCEPT !.id = "already started"]
            /\ UNCHANGED <<recorders, recLog>>
       ELSE /\ recorders' = [recorders EXCEPT ![recorderRef] = "started"]
            /\ recLog' = [recLog EXCEPT !.captures = @ + 1]
            /\ recCalls' = [recCalls EXCEPT ![c].pc = "recStart"]
            /\ last' = [Op("startRecordToneStarted") EXCEPT !.id = "capturing"]
            /\ UNCHANGED isStartingRec
  /\ UNCHANGED <<isRec, view, inEvent, recorderRef, recStatusRef, downloadUrl,
                 lastBlobUrlRef, urls, toast, tickRef, intervals, recStartRef,
                 monitorGain, muteDuringRec, edges>>
  /\ RecStep

\* Tone.start() or the recorder's start() failed for another reason: the
\* catch shows the message and finally clears isStartingRec
startRecordFailed(c) ==
  /\ ~inEvent
  /\ recCalls[c].kind = "start" /\ recCalls[c].pc = "toneStart"
  /\ toast' = "startFailed"
  /\ isStartingRec' = FALSE
  /\ recCalls' = [recCalls EXCEPT ![c] = NoRecCall]
  /\ recLog' = [recLog EXCEPT !.failed = @ + 1]
  /\ last' = Op("startRecordFailed")
  /\ UNCHANGED <<isRec, view, inEvent, recorderRef, recorders, recStatusRef,
                 downloadUrl, lastBlobUrlRef, urls, tickRef, intervals,
                 recStartRef, monitorGain, muteDuringRec, edges>>
  /\ RecStep

\* the recorder's start promise resolved: the session is marked as recording
\* and the 200 ms timer is started
startRecordRecording(c) ==
  /\ ~inEvent
  /\ recCalls[c].kind = "start" /\ recCalls[c].pc = "recStart"
  /\ FreeHandles(intervals) # {}
  /\ recStatusRef' = "recording"
  /\ isRec' = TRUE
  /\ recStartRef' = TRUE
  /\ tickRef' = Min(FreeHandles(intervals))
  /\ intervals' = intervals \cup {Min(FreeHandles(intervals))}
  /\ toast' = "recording"
  /\ isStartingRec' = FALSE
  /\ recCalls' = [recCalls EXCEPT ![c] = NoRecCall]
  /\ last' = Op("startRecordRecording")
  /\ UNCHANGED <<view, inEvent, recorderRef, recorders, downloadUrl,
                 lastBlobUrlRef, urls, recLog, monitorGain, muteDuringRec, edges>>
  /\ RecStep

\* if (!isRec && recStatusRef.current !== "recording") return;
stopBlocked(v, st) == ~v.isRec /\ st # "recording"

\* the finally block of stopRecord
stopFinally ==
  /\ recStatusRef' = "idle"
  /\ isRec' = FALSE
  /\ recStartRef' = FALSE
  /\ tickRef' = 0
  /\ intervals' = intervals \ {tickRef}

\* stopRecord up to its await (await recorderRef.current?.stop()), and the
\* commit of the click.  A recorder that is not started rejects at once
\* ("Recorder is not started"): catch and finally run with the call.
stopRecord ==
  /\ ~inEvent
  /\ IF stopBlocked(view, recStatusRef)
       THEN /\ last' = [Op("stopRecord") EXCEPT !.id = "blocked"]
            /\ UNCHANGED <<isRec, recorders, recStatusRef, toast, tickRef,
                           intervals, recStartRef, recCalls, recLog>>
       ELSE /\ recLog.stops < MaxRecStops
            /\ recLog' = [recLog EXCEPT !.stops = @ + 1]
            /\ IF recorderRef # 0 /\ recorders[recorderRef] = "started"
                 THEN /\ FreeRecSlots(recCalls) # {}
                      /\ recStatusRef' = "stopping"
                      /\ toast' = "stopping"
                      /\ recorders' = [recorders EXCEPT ![recorderRef] = "stopped"]
                      /\ recCalls' = [recCalls EXCEPT ![Min(FreeRecSlots(recCalls))] =
                                        [kind |-> "stop", pc |-> "finalize"]]
                      /\ last' = [Op("stopRecord") EXCEPT !.id = "stopping"]
                      /\ UNCHANGED <<isRec, tickRef, intervals, recStartRef>>
                 ELSE /\ toast' = IF recorderRef # 0 THEN "stopFailed" ELSE "stopping"
                      /\ stopFinally
                      /\ last' = [Op("stopRecord") EXCEPT !.id = "rejected"]
                      /\ UNCHANGED <<recorders, recCalls>>
  /\ view' = Snapshot(isRec', isStartingRec, muteDuringRec)
  /\ monitorGain' = MonitorEffect(view, view', monitorGain)
  /\ UNCHANGED <<isStartingRec, inEvent, recorderRef, downloadUrl,
                 lastBlobUrlRef, urls, muteDuringRec, edges>>
  /\ RecStep

\* stopRecord's success path without the revoke of the previous URL
stopRecordFinalizedNoRevoke(c) ==
  /\ ~inEvent
  /\ recCalls[c].kind = "stop" /\ recCalls[c].pc = "finalize"
  /\ FreeHandles(urls) # {}
  /\ LET url == Min(FreeHandles(urls))
     IN /\ urls' = urls \cup {url}
        /\ lastBlobUrlRef' = url
        /\ downloadUrl' = url
  /\ toast' = "ready"
  /\ stopFinally
  /\ recLog' = [recLog EXCEPT !.blobs = @ + 1]
  /\ recCalls' = [recCalls EXCEPT ![c] = NoRecCall]
  /\ last' = Op("stopRecordFinalized")
  /\ UNCHANGED <<isStartingRec, view, inEvent, recorderRef, recorders,
                 monitorGain, muteDuringRec, edges>>
  /\ RecStep

\* the recorder delivered the blob: a new object URL replaces the previous
\* one, then finally
stopRecordFinalized(c) ==
  /\ ~inEvent
  /\ recCalls[c].kind = "stop" /\ recCalls[c].pc = "finalize"
  /\ FreeHandles(urls) # {}
  /\ LET url == Min(FreeHandles(urls))
     IN /\ urls' = (urls \cup {url}) \ {lastBlobUrlRef}
        /\ lastBlobUrlRef' = url
        /\ downloadUrl' = url
  /\ toast' = "ready"
  /\ stopFinally
  /\ recLog' = [recLog EXCEPT !.blobs = @ + 1]
  /\ recCalls' = [recCalls EXCEPT ![c] = NoRecCall]
  /\ last' = Op("stopRecordFinalized")
  /\ UNCHANGED <<isStartingRec, view, inEvent, recorderRef, recorders,
                 monitorGain, muteDuringRec, edges>>
  /\ RecStep

\* stopRecord's failure path without its finally block
stopRecordFailedNoFinally(c) ==
  /\ ~inEvent
  /\ recCalls[c].kind = "stop" /\ recCalls[c].pc = "finalize"
  /\ toast' = "stopFailed"
  /\ recCalls' = [recCalls EXCEPT ![c] = NoRecCall]
  /\ last' = Op("stopRecordFailed")
  /\ UNCHANGED <<isRec, recStatusRef, recStartRef, tickRef, intervals,
                 isStartingRec, view, inEvent, recorderRef, recorders,
                 downloadUrl, lastBlobUrlRef, urls, recLog, monitorGain,
                 muteDuringRec, edges>>
  /\ RecStep

\* the recorder failed to deliver the blob: catch, then finally
stopRecordFailed(c) ==
  /\ ~inEvent
  /\ recCalls[c].kind = "stop" /\ recCalls[c].pc = "finalize"
  /\ toast' = "stopFailed"
  /\ stopFinally
  /\ recCalls' = [recCalls EXCEPT ![c] = NoRecCall]
  /\ last' = Op("stopRecordFailed")
  /\ UNCHANGED <<isStartingRec, view, inEvent, recorderRef, recorders,
                 downloadUrl, lastBlobUrlRef, urls, recLog, monitorGain,
                 muteDuringRec, edges>>
  /\ RecStep

NextRec ==
  \/ Render
  \/ \E b \in BOOLEAN : setMuteDuringRec(b)
  \/ \E v \in FaderPositions : MasterFader(v)
  \/ toastTimeout
  \/ startRecord
  \/ \E c \in RecSlots : startRecordToneStarted(c)
  \/ \E c \in RecSlots : startRecordFailed(c)
  \/ \E c \in RecSlots : startRecordRecording(c)
  \/ stopRecord
  \/ \E c \in RecSlots : stopRecordFinalized(c)
  \/ \E c \in RecSlots : stopRecordFailed(c)
  \/ ~inEvent /\ stopMic

----------------------------------------------------------------------------
(* Input level sampler *)

\* the 60 of (db + 60) / 60; a level of 1 is DbSpan sixtieths
DbSpan == 60

\* what meter.getValue() can give: a number of dB, or a non-finite value
FiniteDb(n) == <<"finite", n>>
Readings ==
  {FiniteDb(n) : n \in (0 - DbSpan - MaxDbOver)..MaxDbOver}
    \cup {<<"NaN", 0>>, <<"-Infinity", 0>>, <<"Infinity", 0>>}

\* Number.isFinite(db)
isFinite(r) == r[1] = "finite"

Max2(a, b) == IF a >= b THEN a ELSE b
Min2(a, b) == IF a <= b THEN a ELSE b

\* the mapping without Math.max / Math.min
normUnclamped(r) == IF isFinite(r) THEN r[2] + DbSpan ELSE 0

\* Number.isFinite(db) ? Math.max(0, Math.min(1, (db + 60) / 60)) : 0
norm(r) == IF isFinite(r) THEN Max2(0, Min2(DbSpan, r[2] + DbSpan)) ELSE 0

InitLevel ==
  /\ meterDb = <<"-Infinity", 0>>
  /\ inputLevel = 0

\* one animation frame: const db = meter.getValue(); setInputLevel(norm)
sample ==
  /\ \E r \in Readings :
       /\ meterDb' = r
       /\ inputLevel' = norm(r)
  /\ last' = Op("sample")
  /\ UNCHANGED <<mixVars, srcVars, monVars, recVars, nOps>>

NextLevel == sample

----------------------------------------------------------------------------
(* Specifications *)

\* the state after the component has mounted
InitAll ==
  /\ InitMix
  /\ InitSrc
  /\ InitRec
  /\ InitLevel
  /\ last = NoOp
  /\ nOps = 0

\* the state once startMic has completed: the microphone is attached
MicLive ==
  /\ edges = attachNode(WiredGraph, MicNode(1))
  /\ status = "live"
  /\ micRef = MicNode(1)
  /\ playerRef = NoNode
  /\ selectedMicId = ""
  /\ player = [started |-> FALSE, onstop |-> FALSE]
  /\ srcCalls = [c \in SrcSlots |-> NoCall]

\* the recorder is exercised with and without a source
InitWithSource ==
  /\ InitMix
  /\ InitSrc \/ MicLive
  /\ InitRec
  /\ InitLevel
  /\ last = NoOp
  /\ nOps = 0

SpecMix == InitAll /\ [][NextMix]_vars

SpecSrc == InitAll /\ [][NextSrc]_vars

SpecRec == InitWithSource /\ [][NextRec]_vars

SpecLevel == InitAll /\ [][NextLevel]_vars

\* the sink's stop() settles (the blob arrives or the call rejects), and
\* React commits pending state
SinkSettles == \E c \in RecSlots : stopRecordFinalized(c) \/ stopRecordFailed(c)

\* the recorder's own handlers and continuations
NextRecCore ==
  \/ Render
  \/ startRecord
  \/ \E c \in RecSlots : startRecordToneStarted(c)
  \/ \E c \in RecSlots : startRecordFailed(c)
  \/ \E c \in RecSlots : startRecordRecording(c)
  \/ stopRecord
  \/ \E c \in RecSlots : stopRecordFinalized(c)
  \/ \E c \in RecSlots : stopRecordFailed(c)

SpecRecLive ==
  /\ InitWithSource
  /\ [][NextRecCore]_vars
  /\ SF_vars(SinkSettles)
  /\ WF_vars(Render)

----------------------------------------------------------------------------
(* Properties of the mixer (SpecMix) *)

NoSolo(h) == \A w \in Voices : ~h[w].solo

\* enabled AND (no solo active OR this voice is the soloed one)
Audible(h, v) == h[v].enabled /\ (NoSolo(h) \/ h[v].solo)

\* C1 - solo exclusivity: after toggleSolo(v) from a state with no solo
\* active, v has its level if it is enabled and gain 0 if it is disabled,
\* every other voice has gain 0 and the dry gain is 0.
C1_SoloExclusive ==
  [][(NoSolo(harmonies) /\ last'.op = "toggleSolo") =>
       /\ \A w \in Voices :
             harmonies'[w].gain =
               IF w = last'.id /\ harmonies[w].enabled
                 THEN harmonies[w].prevLevel ELSE 0
       /\ dryGain' = 0]_vars

\* C2 - solo reversibility: toggleSolo(v) from a state with no solo active,
\* followed by toggleSolo(v), gives every voice the gain it had before the
\* first toggle, clears every solo flag and leaves the dry gain at the level
\* the user set last.
C2_SoloReversible ==
  [][(NoSolo(harmonies) /\ last'.op = "toggleSolo") =>
       LET v  == last'.id
           h2 == toggleSoloH(harmonies', v)
           d2 == MainMutedEffect(mainMuted', toggleSoloMuted(harmonies', v),
                                 dryGain', dryDefaultRef')
       IN /\ \A w \in Voices : h2[w].gain = harmonies[w].gain
          /\ NoSolo(h2)
          /\ d2 = dryDefaultRef]_vars

\* C4 - a voice whose enabled flag is false has gain 0, in every reachable
\* state, the initial one included.
C4_DisabledIsSilent ==
  \A v \in Voices : ~harmonies[v].enabled => harmonies[v].gain = 0

\* C5 - enable composes with solo: enabling a disabled voice u while another
\* voice is soloed leaves u's gain at 0.
C5_EnableUnderSolo ==
  [][(/\ last'.op = "toggleHarmonyEnabled" /\ last'.on
      /\ ~harmonies[last'.id].enabled
      /\ \E w \in Voices \ {last'.id} : harmonies[w].solo)
       => harmonies'[last'.id].gain = 0]_vars

\* C6 - enable/level independence: disabling an enabled voice v and enabling
\* it again leaves v's stored level at its value before the disable, and
\* that value is the gain v is restored to.
C6_DisableEnableKeepsLevel ==
  [][(/\ last'.op = "toggleHarmonyEnabled" /\ ~last'.on
      /\ harmonies[last'.id].enabled)
       => LET v  == last'.id
              h2 == toggleHarmonyEnabledH(harmonies', v, TRUE)
          IN /\ h2[v].prevLevel = harmonies[v].prevLevel
             /\ h2[v].gain = harmonies[v].prevLevel]_vars

\* C7 - setHarmonyLevel(v, x) stores x as v's prevLevel, applies it to the
\* gain of an audible voice, and leaves the gain of a voice silenced by
\* disable or by another voice's solo at 0.
C7_LevelDeferredWhenMuted ==
  [][last'.op = "setHarmonyLevel" =>
       LET v == last'.id
           x == last'.level
       IN /\ harmonies'[v].prevLevel = x
          /\ Audible(harmonies, v) => harmonies'[v].gain = x
          /\ (~Audible(harmonies, v) /\ harmonies[v].gain = 0)
               => harmonies'[v].gain = 0]_vars

----------------------------------------------------------------------------
(* Properties of the signal graph (SpecSrc) *)

\* the connections of the mix itself: out of dryGain, the voice gains and the bus
MixEdges(es) ==
  {e \in es : \/ e[1] = DryGainNode
              \/ e[1] = BusNode
              \/ \E v \in Voices : e[1] = Gain(v)}

\* C3 - attach/detach symmetry: detaching the microphone that startMic has
\* just attached leaves the connections dryGain->bus, gain->bus and bus->taps
\* as they were before the attach.
C3_AttachDetachSymmetric ==
  [][last'.op = "startMicOpened" =>
       MixEdges(detachNode(edges', micRef')) = MixEdges(edges)]_vars

----------------------------------------------------------------------------
(* Properties of the recorder and the monitor *)

\* the component has rendered its current state and is not inside an event
Rendered == ~inEvent /\ view = Snapshot(isRec, isStartingRec, muteDuringRec)

\* C8 (monitor-mute independence): in every state where a recording is
\* active and muteDuringRec is true, the monitor gain is 0 and the bus gain
\* is 1, whatever startRecord, stopRecord, the mute toggle and the Master
\* fader have done before.
C8_MonitorMuteIndependent ==
  (Rendered /\ isRec /\ recStatusRef = "recording" /\ muteDuringRec)
    => (monitorGain = 0 /\ busGain = Unity)

\* what startRecord must leave alone when it refuses to start
RecordingUntouched ==
  UNCHANGED <<isRec, isStartingRec, recStatusRef, recorderRef, recorders,
              edges, tickRef, intervals, recStartRef, downloadUrl,
              lastBlobUrlRef, urls, recCalls, micRef, playerRef, status,
              monitorGain, busGain, muteDuringRec>>

NoSource == micRef = NoNode /\ playerRef = NoNode

\* C9 (recording requires a source), as stated: startRecord called while no
\* microphone handle is held and no player is loaded shows the advisory and
\* changes nothing else: the recording state stays idle, isRec stays false,
\* no sink is created, no timer is started, the download URL is untouched.
C9_NoSourceAdvisory_AsStated ==
  [][(last'.op = "startRecord" /\ NoSource)
       => (toast' = "noSource" /\ RecordingUntouched
           /\ recStatusRef' = "idle" /\ ~isRec')]_vars

\* the handler sees neither isRec nor isStartingRec, and no session is
\* recording or being stopped
SeesIdle == ~view.isRec /\ ~view.isStartingRec /\ recStatusRef = "idle"

\* C9 (recording requires a source), amended: startRecord called with no
\* source while it sees neither isRec nor isStartingRec and the recording
\* state is idle shows the advisory and changes nothing else.  (A call that
\* sees a session active or starting returns at the first test, silently.)
C9_NoSourceAdvisory ==
  [][(last'.op = "startRecord" /\ NoSource /\ SeesIdle)
       => (toast' = "noSource" /\ RecordingUntouched
           /\ recStatusRef' = "idle" /\ ~isRec')]_vars

C9_Witness ==
  /\ last.op = "startRecord" /\ last.id = "noSource"
  /\ NoSource /\ toast = "noSource"
  /\ recStatusRef = "idle" /\ ~isRec /\ recorderRef = 0 /\ intervals = {}

\* every startRecord call has run to its end
StartsSettled == \A c \in RecSlots : recCalls[c].kind # "start"

\* C10 (double-start idempotence): two startRecord calls made from the same
\* render, the second before the first has passed its awaits, leave exactly
\* one recording session once both have run to their end: the sink was
\* started once, one duration timer is running and the recording state is
\* "recording".
C10_DoubleStartOneSession ==
  (recLog.doubled /\ recLog.stops = 0 /\ recLog.failed = 0 /\ StartsSettled)
    => /\ recLog.captures = 1
       /\ recorderRef # 0 /\ recorders[recorderRef] = "started"
       /\ Len(recorders) = 1
       /\ Cardinality(intervals) = 1 /\ tickRef \in intervals
       /\ recStatusRef = "recording"
       /\ isRec

C10_Witness ==
  /\ recLog.doubled /\ recLog.starts = 2 /\ recLog.stops = 0
  /\ recLog.failed = 0 /\ StartsSettled
  /\ Rendered /\ isRec /\ ~isStartingRec

\* C11 (double-stop idempotence): a stopRecord call made while an earlier
\* one is still in "stopping" is a no-op: it does not call stop on the sink,
\* shows no advisory and does not change the recording state, so that one
\* recording yields one finalized object URL.
C11_SecondStopNoOp ==
  [][(last'.op = "stopRecord" /\ recStatusRef = "stopping")
       => /\ last'.id = "blocked"
          /\ recStatusRef' = "stopping"
          /\ toast' = toast
          /\ UNCHANGED <<isRec, recorders, tickRef, intervals, recStartRef,
                         recCalls, downloadUrl, lastBlobUrlRef, urls>>]_vars

\* the sink is capturing, or a stopRecord call waits for its blob
SinkCapturing == recorderRef # 0 /\ recorders[recorderRef] = "started"
SinkFinalizing == \E c \in RecSlots : recCalls[c].kind = "stop"

\* idle -> recording -> stopping -> idle; a stopRecord whose stop() rejects
\* at once passes through "stopping" within the call
LegalRecMove(a, b) ==
  \/ a = b
  \/ a = "idle" /\ b = "recording"
  \/ a = "recording" /\ b = "stopping"
  \/ a = "stopping" /\ b = "idle"
  \/ a = "recording" /\ b = "idle" /\ last'.op = "stopRecord"

\* C12 (recording state machine): recStatusRef only moves idle -> recording
\* -> stopping -> idle, stopRecord only writes "stopping" over "recording",
\* and the state is not idle while the sink that was recording is still
\* capturing or still finalizing.
C12_RecStateMachine ==
  [][/\ LegalRecMove(recStatusRef, recStatusRef')
     /\ (last'.op = "stopRecord" /\ last'.id # "blocked")
          => recStatusRef = "recording"
     /\ (recStatusRef # "idle" /\ recStatusRef' = "idle") => ~SinkCapturing'
     /\ recStatusRef' = "idle" => ~SinkFinalizing']_vars

\* C13 (never stuck in stopping): whenever the recording state is
\* "stopping" it eventually is "idle" again with isRec false, whether the
\* sink delivers the blob or its stop() throws.
C13_StoppingEnds == (recStatusRef = "stopping") ~> (recStatusRef = "idle" /\ ~isRec)

\* stopRecord went to "stopping", the sink failed, and the state is idle
C13_Witness ==
  /\ last.op = "stopRecordFailed"
  /\ recStatusRef = "idle" /\ ~isRec /\ tickRef = 0
  /\ recLog.stops >= 1

----------------------------------------------------------------------------
(* Properties of the source manager *)

\* the source nodes (microphones, players) with a connection into the graph
SourcesAttached(es) == {e[1] : e \in {x \in es : x[1][1] \in {"mic", "player"}}}
MicsAttached(es) == {n \in SourcesAttached(es) : n[1] = "mic"}
PlayersAttached(es) == {n \in SourcesAttached(es) : n[1] = "player"}

\* this step is the end of startMic call c (mic.open settled)
Completes(c) ==
  /\ srcCalls[c].kind = "startMic" /\ srcCalls[c].pc = "open"
  /\ srcCalls'[c].kind = "none"

\* C14 (single source): in every reachable state at most one source is
\* attached to the dry gain and the per-voice inputs.
C14_AtMostOneSource == Cardinality(SourcesAttached(edges)) <= 1

\* C15 (mutual exclusion on microphone start): when a player was loaded at
\* the time startMic was called, the player is stopped and has no
\* connection into the graph once startMic has completed.
C15_MicStartReleasesPlayer ==
  [][\A c \in SrcSlots :
       (last'.op = "startMicOpened" /\ Completes(c) /\ srcCalls[c].hadPlayer)
         => (PlayersAttached(edges') = {} /\ ~player'.started)]_vars

\* C16 (device switch atomicity): while a microphone opened by a device
\* switch is still opening, and when it has opened, no step takes the graph
\* from at most the held microphone attached to two microphones attached,
\* also when Start is clicked meanwhile.
C16_SwitchOneMic ==
  [][(/\ \E c \in SrcSlots : srcCalls[c].kind = "startMic"
                               /\ srcCalls[c].origin = "switch"
      /\ MicsAttached(edges) \subseteq {micRef})
       => Cardinality(MicsAttached(edges')) <= 1]_vars

\* C17 (a superseding stop is authoritative): a startMic call that saw a
\* stopMic while it was awaiting does not, when it completes, attach the
\* microphone, store it in micRef or set status to "live".
C17_StopSupersedesStart ==
  [][\A c \in SrcSlots :
       (last'.op = "startMicOpened" /\ Completes(c) /\ srcCalls[c].superseded)
         => (edges' = edges /\ micRef' = micRef /\ status' # "live")]_vars

\* C18 (open failure): when mic.open fails, no microphone is attached or
\* retained and status has the value it had when startMic was called.
C18_OpenFailureKeepsStatus ==
  [][\A c \in SrcSlots :
       (last'.op = "startMicFailed" /\ Completes(c))
         => (status' = srcCalls[c].was /\ micRef' = micRef /\ edges' = edges)]_vars

\* C19 (microphone round trip): a startMic for the default device "" that
\* succeeds ends with status "live" and the microphone held and attached;
\* a stopMic on a held microphone ends with status "idle", micRef empty and
\* no connection leaving the former microphone node.
C19_MicRoundTrip ==
  [][/\ \A c \in SrcSlots :
          (last'.op = "startMicOpened" /\ Completes(c) /\ srcCalls[c].dev = "")
            => /\ status' = "live"
               /\ micRef' = srcCalls[c].node
               /\ <<micRef', DryGainNode>> \in edges'
     /\ (last'.op = "stopMic" /\ micRef # NoNode)
          => /\ status' = "idle"
             /\ micRef' = NoNode
             /\ \A e \in edges' : e[1] # micRef]_vars

\* startMic and stopMic, and nothing else, have run from the initial state
C19_Witness ==
  /\ last.op = "stopMic" /\ nOps = 2
  /\ selectedMicId = "" /\ status = "idle" /\ micRef = NoNode
  /\ edges = detachNode(attachNode(WiredGraph, MicNode(1)), MicNode(1))
  /\ edges # WiredGraph

\* C20 (operations on a missing source): stopMic with no microphone held,
\* stopFile with no player loaded and playFile with no player loaded leave
\* status, micRef, playerRef and the connections unchanged.
C20_MissingSourceNoOp ==
  [][(\/ last'.op = "stopMic" /\ micRef = NoNode
      \/ last'.op = "stopFile" /\ playerRef = NoNode
      \/ last'.op = "playFile" /\ playerRef = NoNode)
       => UNCHANGED <<status, micRef, playerRef, edges>>]_vars

----------------------------------------------------------------------------
(* Properties of the recorder's resources *)

\* C21 (one retained URL): in every reachable state at most one object URL
\* is created and not yet revoked, and it is the one lastBlobUrlRef holds;
\* a stopRecord that creates a URL revokes the one issued before.
C21_OneUrlRetained ==
  /\ Cardinality(urls) <= 1
  /\ urls = IF lastBlobUrlRef = 0 THEN {} ELSE {lastBlobUrlRef}

\* a second recording has been finalized
C21_Witness ==
  /\ last.op = "stopRecordFinalized"
  /\ recLog.blobs = 2
  /\ urls = {lastBlobUrlRef} /\ downloadUrl = lastBlobUrlRef

\* C22 (sink connected when capture begins): whenever the sink starts
\* capturing, in the first session and in every later one, the bus is
\* connected to it; one sink exists at most, and no step removes the
\* bus -> sink connection.
C22_SinkConnected ==
  [][/\ last'.op = "startRecordToneStarted" /\ last'.id = "capturing"
          => <<BusNode, RecorderNode(recorderRef')>> \in edges'
     /\ Len(recorders') <= 1
     /\ \A i \in 1..Len(recorders) :
          <<BusNode, RecorderNode(i)>> \in edges
            => <<BusNode, RecorderNode(i)>> \in edges']_vars

\* a second session begins to capture after stopMic has run detachNode
C22_Witness ==
  /\ last.op = "startRecordToneStarted" /\ last.id = "capturing"
  /\ recLog.captures = 2
  /\ micRef = NoNode
  /\ \A v \in Voices : <<Gain(v), BusNode>> \notin edges
  /\ <<BusNode, RecorderNode(recorderRef)>> \in edges

----------------------------------------------------------------------------
(* Properties of the input level *)

\* C23 (level mapping): the sampled level is 0 for a non-finite reading and
\* for db <= -60, is 1 for a (finite) db >= 0, is (db + 60) / 60 in between,
\* lies in [0, 1], and a reading not below the previous one gives a level
\* not below the previous one.
C23_LevelMapping ==
  [][last'.op = "sample" =>
       LET r == meterDb'
           l == inputLevel'
       IN /\ ~isFinite(r) => l = 0
          /\ (isFinite(r) /\ r[2] <= 0 - DbSpan) => l = 0
          /\ (isFinite(r) /\ r[2] >= 0) => l = DbSpan
          /\ (isFinite(r) /\ r[2] > 0 - DbSpan /\ r[2] < 0) => l = r[2] + DbSpan
          /\ l >= 0 /\ l <= DbSpan
          /\ (isFinite(meterDb) /\ isFinite(r) /\ meterDb[2] <= r[2])
               => inputLevel <= l]_vars

\* a reading above 0 dB has been sampled and clamped to 1
C23_Witness ==
  /\ last.op = "sample"
  /\ isFinite(meterDb) /\ meterDb[2] > 0
  /\ inputLevel = DbSpan

----------------------------------------------------------------------------
(* Further properties of the mixer *)

\* C24 (solo hand-over): when a voice is soloed and toggleSolo(w) is called
\* for another voice w, then w is the only voice with solo = true, w's gain
\* is its prevLevel, every other voice has gain 0 and the dry gain is 0.
C24_SoloHandOver ==
  [][(last'.op = "toggleSolo"
        /\ \E v \in Voices \ {last'.id} : harmonies[v].solo)
       => LET w == last'.id
          IN /\ \A u \in Voices : harmonies'[u].solo <=> (u = w)
             /\ harmonies'[w].gain = harmonies'[w].prevLevel
             /\ harmonies'[w].prevLevel = harmonies[w].prevLevel
             /\ \A u \in Voices \ {w} : harmonies'[u].gain = 0
             /\ dryGain' = 0]_vars

\* C28 (gain is 0 or the stored level): in every reachable state each
\* voice's gain is 0 or its prevLevel.
C28_GainZeroOrPrevLevel ==
  \A v \in Voices : harmonies[v].gain = 0 \/ harmonies[v].gain = harmonies[v].prevLevel

\* a level has been set on one voice while another voice is silenced
C28_Witness ==
  /\ last.op = "setHarmonyLevel" /\ last.level # 0 /\ last.level # VoiceDefault
  /\ harmonies[last.id].gain = last.level
  /\ \E u \in Voices : harmonies[u].gain = 0 /\ harmonies[u].prevLevel # 0

\* C29 (one solo): in every reachable state at most one voice has
\* solo = true.
C29_AtMostOneSolo ==
  Cardinality({v \in Voices : harmonies[v].solo}) <= 1

\* the solo has been handed from one voice to another
C29_Witness ==
  /\ last.op = "toggleSolo"
  /\ harmonies[last.id].solo
  /\ nOps >= 2
  /\ \E u \in Voices \ {last.id} : harmonies[u].gain = 0 /\ ~harmonies[u].solo

----------------------------------------------------------------------------
(* Further properties of the signal graph and the source manager *)

\* source -> dryGain -> bus and, for every voice, source -> shifter -> gain -> bus
FullPaths(es, src) ==
  /\ <<src, DryGainNode>> \in es
  /\ <<DryGainNode, BusNode>> \in es
  /\ \A v \in Voices :
       /\ <<src, Shifter(v)>> \in es
       /\ <<Shifter(v), Gain(v)>> \in es
       /\ <<Gain(v), BusNode>> \in es

\* C25 (attach gives full paths): after every attachNode(source), by
\* startMic or by loadFile, the first one and any later one, the graph has
\* source -> dryGain -> bus and source -> shifter -> gain -> bus for every
\* voice.
C25_AttachGivesFullPaths ==
  [][/\ last'.op = "startMicOpened" => FullPaths(edges', micRef')
     /\ last'.op = "loadFileInit" => FullPaths(edges', playerRef')]_vars

MicHeldAttached == micRef # NoNode /\ <<micRef, DryGainNode>> \in edges

\* C26 (device switch takes effect): when selectedMicId changes to d while
\* a microphone is held and attached, whatever status shows, the old
\* microphone is released and a microphone is opened for d; a microphone
\* opened by a switch is the one for the id selected when it completes.
C26_SwitchTakesEffect ==
  [][/\ (last'.op = "selectMic" /\ MicHeldAttached)
          => /\ micRef' = NoNode
             /\ MicsAttached(edges') = MicsAttached(edges) \ {micRef}
             /\ \E c \in SrcSlots : /\ srcCalls'[c].kind = "startMic"
                                    /\ srcCalls'[c].origin = "switch"
                                    /\ srcCalls'[c].dev = selectedMicId'
     /\ \A c \in SrcSlots :
          (last'.op = "startMicOpened" /\ Completes(c)
             /\ srcCalls[c].origin = "switch")
            => srcCalls[c].dev = selectedMicId]_vars

\* no startMic, loadFile or playFile call is in flight
Quiescent == \A c \in SrcSlots : srcCalls[c].kind = "none"

\* C27 (status consistency): in every quiescent state status is "live"
\* exactly when a microphone is held in micRef and attached.
C27_LiveIffMicHeld ==
  Quiescent => ((status = "live") <=> MicHeldAttached)

----------------------------------------------------------------------------
(* The duration timer *)

\* no startRecord or stopRecord call is in flight
RecQuiescent == \A c \in RecSlots : recCalls[c].kind = "none"

\* C30 (the duration timer is not leaked): in every reachable state at most
\* one interval is running, and when the recording state is idle with no
\* start or stop call in flight no interval is running and tickRef and
\* recStartRef are null.
C30_TimerNotLeaked ==
  /\ Cardinality(intervals) <= 1
  /\ (recStatusRef = "idle" /\ RecQuiescent)
       => (intervals = {} /\ tickRef = 0 /\ ~recStartRef)

============================================================================
